---- MODULE Spec2Model ----
(***************************************************************************)
(* Model of app.py: the storage adapter (init_database, save_result, the   *)
(* history query of render_history), the inference pipeline               *)
(* (detect_first_face, classify_emotion) and the Streamlit script main(),  *)
(* one run of which is a visit.                                            *)
(***************************************************************************)
EXTENDS Integers, Sequences, FiniteSets, TLC

VARIABLES
    usePostgres,  \* USE_POSTGRES: "DATABASE_URL" in os.environ
    schema,       \* how many usage tables / indexes the database holds
    rows,         \* the usage table, in insertion order
    nextId,       \* AUTOINCREMENT / SERIAL counter: the next id handed out
    pc,           \* position of the running script (or of the API driver)
    conn,         \* the connection init_database returned
    txFailed,     \* PostgreSQL: the connection's transaction is aborted
    name,         \* st.text_input("Your name")
    raw_bytes,    \* the encoded bytes of the submitted photograph
    frame,        \* the decoded image: <<height, width>>
    boxes,        \* mtcnn.detect: bounding boxes, in half pixels
    probs,        \* mtcnn.detect: detection probabilities
    face,         \* what detect_first_face returned
    class_map,    \* recognizer.idx_to_emotion_class
    scores,       \* scores[0] of recognizer.classify_emotions
    pred,         \* the class index whose label the recognizer ranked first
    emotion,      \* label returned by classify_emotion
    confidence,   \* confidence returned by classify_emotion
    out,          \* what the page displays in this visit
    fetched,      \* rows = cursor.fetchall() of the history query
    raised,       \* the exception that left the running function, if any
    rowsAtStart,  \* the usage table when the visit began
    committed,    \* number of rows this visit inserted and committed
    reachable,    \* whether the backend could be opened by init_database
    steps,        \* the calls main() has made so far in this visit
    call          \* the last storage call made and its arguments

vars == <<usePostgres, schema, rows, nextId, pc, conn, txFailed, name,
          raw_bytes, frame, boxes, probs, face, class_map, scores, pred,
          emotion, confidence, out, fetched, raised, rowsAtStart, committed,
          reachable, steps, call>>

dbVars == <<usePostgres, schema, rows, nextId>>
detVars == <<frame, boxes, probs, face>>
clsVars == <<class_map, scores, pred, emotion, confidence>>

-----------------------------------------------------------------------------
(* Bounds of the model *)

MaxRows == 2        \* rows the usage table may hold
MaxDim == 2         \* largest image height and width, in pixels
MaxProb == 2        \* detection probabilities are 1..MaxProb (in 1/MaxProb)
NumClasses == 3     \* classes of the emotion model
DoubleBits == 1     \* fraction bits of a Python float in the model
SingleBits == 0     \* fraction bits of a 4-byte PostgreSQL REAL in the model

(* Program constants *)

HistoryLimit == 100 \* LIMIT 100 of the history query

-----------------------------------------------------------------------------
(* Values *)

Null == "None"
Open == "Connection"
NoError == "none"

Max(a, b) == IF a >= b THEN a ELSE b
Min(a, b) == IF a <= b THEN a ELSE b

RECURSIVE Pow2(_)
Pow2(n) == IF n = 0 THEN 1 ELSE 2 * Pow2(n - 1)

\* A confidence c stands for the float c / ConfScale.
ConfScale == Pow2(DoubleBits)
Confidences == 0..ConfScale

Names == {"", "Alice", "Bob"}
Images == {"jpg1"}
Instants == {"2026-01-01T00:00:00", "2026-01-01T00:00:01"}
NoTimestamp == "None"

EmptySchema == [tables |-> 0, idxTimestamp |-> 0, idxName |-> 0]
NoFace == [kind |-> "None", y1 |-> 0, y2 |-> 0, x1 |-> 0, x2 |-> 0]
NoCall == [op |-> "none", ok |-> FALSE, inserted |-> FALSE, name |-> "",
           timestamp |-> NoTimestamp, image |-> "", emotion |-> "",
           confidence |-> 0, limit |-> 0]

-----------------------------------------------------------------------------
(* Storage adapter *)

\* CREATE TABLE / CREATE INDEX ... IF NOT EXISTS on an object counted n times.
CreateIfNotExists(n) == IF n = 0 THEN 1 ELSE n

\* The statements init_database executes and commits: the PostgreSQL branch
\* creates the table and both indexes, the SQLite branch the table alone.
InitSchema(s, pg) ==
    IF pg
    THEN [tables |-> CreateIfNotExists(s.tables),
          idxTimestamp |-> CreateIfNotExists(s.idxTimestamp),
          idxName |-> CreateIfNotExists(s.idxName)]
    ELSE [s EXCEPT !.tables = CreateIfNotExists(@)]

\* init_database when the backend cannot be opened: psycopg2.Error is caught,
\* reported and None returned; sqlite3.connect is not guarded.
InitFailureUnguarded(pg) ==
    [conn |-> Null, raised |-> "psycopg2.Error", msgs |-> {}]
InitFailure(pg) ==
    IF pg
    THEN [conn |-> Null, raised |-> NoError,
          msgs |-> {"PostgreSQL connection error"}]
    ELSE [conn |-> Null, raised |-> "sqlite3.Error", msgs |-> {}]

\* A Python float written to a 4-byte REAL column keeps SingleBits fraction
\* bits: round to nearest, ties to even.
RoundSingle(c) ==
    LET step == Pow2(DoubleBits - SingleBits)
        q == c \div step
        r == c % step
    IN  IF 2 * r < step THEN q * step
        ELSE IF 2 * r > step THEN (q + 1) * step
        ELSE IF q % 2 = 0 THEN q * step ELSE (q + 1) * step

\* confidence REAL NOT NULL: 8-byte IEEE in SQLite, 4-byte in PostgreSQL.
StoreReal(pg, c) == IF pg THEN RoundSingle(c) ELSE c

\* timestamp = datetime.utcnow().isoformat() when none is supplied.
EffectiveTimestamp(ts, now) == IF ts = NoTimestamp THEN now ELSE ts

\* The row the INSERT of save_result adds.
NewRowReusingId(rs, id, n, ts, img, emo, c, pg) ==
    [id |-> Max(id - 1, 1), name |-> n, timestamp |-> ts, image |-> img,
     emotion |-> emo, confidence |-> StoreReal(pg, c)]
NewRow(rs, id, n, ts, img, emo, c, pg) ==
    [id |-> id, name |-> n, timestamp |-> ts, image |-> img,
     emotion |-> emo, confidence |-> StoreReal(pg, c)]

\* How save_result ends: with PostgreSQL and a connection the INSERT is
\* guarded by try/except psycopg2.Error; every other case runs
\* conn.cursor() ... conn.commit() unguarded.
SaveOutcome(pg, c, failed, ok) ==
    IF pg /\ c # Null
    THEN IF ok /\ ~failed
         THEN [inserted |-> TRUE, raised |-> NoError, msgs |-> {},
               txFailed |-> failed]
         ELSE [inserted |-> FALSE, raised |-> NoError,
               msgs |-> {"Database error"}, txFailed |-> TRUE]
    ELSE IF c = Null
         THEN [inserted |-> FALSE, raised |-> "AttributeError", msgs |-> {},
               txFailed |-> failed]
         ELSE IF ok
              THEN [inserted |-> TRUE, raised |-> NoError, msgs |-> {},
                    txFailed |-> failed]
              ELSE [inserted |-> FALSE, raised |-> "sqlite3.Error",
                    msgs |-> {}, txFailed |-> failed]

\* SELECT name, timestamp, emotion, confidence
Display(r) == [name |-> r.name, timestamp |-> r.timestamp,
               emotion |-> r.emotion, confidence |-> r.confidence]

RowSet(rs) == {rs[i] : i \in 1..Len(rs)}

\* ORDER BY id DESC
RECURSIVE OrderByIdAsc(_)
OrderByIdAsc(S) ==
    IF S = {} THEN <<>>
    ELSE LET r == CHOOSE x \in S : \A y \in S : y.id >= x.id
         IN  <<r>> \o OrderByIdAsc(S \ {r})
RECURSIVE OrderByIdDesc(_)
OrderByIdDesc(S) ==
    IF S = {} THEN <<>>
    ELSE LET r == CHOOSE x \in S : \A y \in S : y.id <= x.id
         IN  <<r>> \o OrderByIdDesc(S \ {r})

\* ... FROM usage ORDER BY id DESC LIMIT n
FetchOldest(rs, n) ==
    LET sorted == OrderByIdAsc(RowSet(rs))
    IN  [i \in 1..Min(n, Len(sorted)) |-> Display(sorted[i])]
FetchRecent(rs, n) ==
    LET sorted == OrderByIdDesc(RowSet(rs))
    IN  [i \in 1..Min(n, Len(sorted)) |-> Display(sorted[i])]

\* render_history with LIMIT n: what the panel shows for a connection. A
\* query that fails (always, once the PostgreSQL transaction is aborted) is
\* caught inside the expander.
QueryOutcome(c, failed, ok, rs, n) ==
    IF c = Null
    THEN [msgs |-> {"Database connection failed"}, fetched |-> <<>>,
          ok |-> FALSE]
    ELSE IF failed \/ ~ok
         THEN [msgs |-> {"See usage history", "Error fetching history"},
               fetched |-> <<>>, ok |-> FALSE]
         ELSE LET got == FetchRecent(rs, n)
              IN  [msgs |-> {"See usage history"} \cup
                            (IF got # <<>> THEN {"Recent entries"}
                                           ELSE {"No records found."}),
                   fetched |-> got, ok |-> TRUE]

\* render_history as written: LIMIT 100.
HistoryOutcome(c, failed, ok, rs) == QueryOutcome(c, failed, ok, rs, HistoryLimit)

-----------------------------------------------------------------------------
(* Inference pipeline *)

\* box.astype(int) of a coordinate of v half pixels: truncation toward zero.
Trunc(v) == IF v >= 0 THEN v \div 2 ELSE -((-v) \div 2)

\* np.argmax(probs): the first index holding the largest value.
ArgMax(p) ==
    CHOOSE i \in 1..Len(p) :
        /\ \A j \in 1..Len(p) : p[j] <= p[i]
        /\ \A j \in 1..(i - 1) : p[j] < p[i]

\* The index range a Python slice start:stop selects on an axis of length n:
\* a negative bound counts from the end, and both are clipped to 0..n.
SliceIndices(start, stop, n) ==
    LET s == IF start < 0 THEN Max(start + n, 0) ELSE Min(start, n)
        e == IF stop < 0 THEN Max(stop + n, 0) ELSE Min(stop, n)
    IN  <<s, Max(s, e)>>

\* frame[y1:y2, x1:x2, :]
Crop(fr, y1, y2, x1, x2) ==
    LET ys == SliceIndices(y1, y2, fr[1])
        xs == SliceIndices(x1, x2, fr[2])
    IN  [kind |-> "region", y1 |-> ys[1], y2 |-> ys[2],
         x1 |-> xs[1], x2 |-> xs[2]]

\* detect_first_face on the detector's output; no boxes stands for None.
DetectAnyBox(fr, bx, pr) ==
    IF bx = <<>> THEN NoFace
    ELSE LET b == bx[ArgMax(pr)]
         IN  Crop(fr, Trunc(b[2]), Trunc(b[4]), Trunc(b[1]), Trunc(b[3]))
DetectFirstFace(fr, bx, pr) ==
    IF bx = <<>> THEN NoFace
    ELSE LET b == bx[ArgMax(pr)]
             x1 == Trunc(b[1])
             y1 == Trunc(b[2])
             x2 == Trunc(b[3])
             y2 == Trunc(b[4])
         IN  IF x2 - x1 <= 0 \/ y2 - y1 <= 0 THEN NoFace
             ELSE Crop(fr, y1, y2, x1, x2)

Height(f) == f.y2 - f.y1
Width(f) == f.x2 - f.x1
IsEmptyRegion(f) == f.kind = "region" /\ (Height(f) = 0 \/ Width(f) = 0)

ClassIdx == 0..(NumClasses - 1)

\* inv_map = {v: k for k, v in class_map.items()}: a later key overwrites an
\* earlier one with the same label.
InvMap(cm) ==
    [v \in {cm[k] : k \in ClassIdx} |->
        CHOOSE k \in ClassIdx : cm[k] = v /\ \A j \in ClassIdx : cm[j] = v => j <= k]

\* The indexes holding the largest score: the recognizer ranks one of them first.
TopIdx(sc) == {k \in ClassIdx : \A j \in ClassIdx : sc[j] <= sc[k]}

\* classify_emotion, p being the class the recognizer ranked first.
ClassifyFixedIndex(cm, sc, p) ==
    [label |-> cm[p], confidence |-> sc[0]]
ClassifyEmotion(cm, sc, p) ==
    LET label == cm[p]
        idx == InvMap(cm)[label]
    IN  [label |-> label, confidence |-> sc[idx]]

-----------------------------------------------------------------------------
(* The Streamlit script: one run of main() is a visit *)

LabelSeq == <<"Anger", "Happy", "Sad", "Neutral", "Fear">>
\* The label map of a loaded model: one label per class.
ModelClassMap == [k \in ClassIdx |-> LabelSeq[k + 1]]

FullBox == <<0, 0, 2 * MaxDim, 2 * MaxDim>>
\* What the detector reports for the photographs of the visits.
VisitDetections ==
    { [frame |-> <<MaxDim, MaxDim>>, boxes |-> <<>>, probs |-> <<>>],
      [frame |-> <<MaxDim, MaxDim>>, boxes |-> <<FullBox>>, probs |-> <<MaxProb>>],
      [frame |-> <<MaxDim, MaxDim>>, boxes |-> <<<<2, 2, 2, 4>>>>, probs |-> <<1>>],
      [frame |-> <<MaxDim, MaxDim>>, boxes |-> <<<<-2, 0, 2, 4>>>>, probs |-> <<1>>],
      [frame |-> <<MaxDim, MaxDim>>, boxes |-> <<<<1, 1, 1, 1>>, FullBox>>,
       probs |-> <<1, MaxProb>>] }
\* What the recognizer scores for the faces of the visits.
VisitScores ==
    { [k \in ClassIdx |-> IF k = 0 THEN ConfScale ELSE 0],
      [k \in ClassIdx |-> IF k = 1 THEN 1 ELSE 0] }

\* A database that init_database has not touched yet.
FreshDatabase ==
    /\ usePostgres \in BOOLEAN
    /\ schema = EmptySchema
    /\ rows = <<>>
    /\ nextId = 1
    /\ rowsAtStart = <<>>

NoSession ==
    /\ conn = Null
    /\ txFailed = FALSE
    /\ name = ""
    /\ raw_bytes = ""
    /\ out = {}
    /\ fetched = <<>>
    /\ raised = NoError
    /\ committed = 0
    /\ reachable = TRUE
    /\ steps = {}
    /\ call = NoCall

NoDetection ==
    /\ frame = <<0, 0>>
    /\ boxes = <<>>
    /\ probs = <<>>
    /\ face = NoFace

NoClassification ==
    /\ class_map = ModelClassMap
    /\ scores = [k \in ClassIdx |-> 0]
    /\ pred = 0
    /\ emotion = ""
    /\ confidence = 0

Init ==
    /\ FreshDatabase
    /\ pc = "Start"
    /\ NoSession
    /\ NoDetection
    /\ NoClassification

\* conn = init_database()
InitDatabase ==
    /\ pc = "Start"
    /\ steps' = steps \cup {"init_database"}
    /\ \E up \in BOOLEAN :
        /\ reachable' = up
        /\ IF up
           THEN /\ schema' = InitSchema(schema, usePostgres)
                /\ conn' = Open
                /\ pc' = "Idle"
                /\ UNCHANGED <<out, raised>>
           ELSE LET f == InitFailure(usePostgres)
                IN  /\ conn' = f.conn
                    /\ out' = out \cup f.msgs
                    /\ raised' = f.raised
                    /\ pc' = IF f.raised = NoError THEN "Idle" ELSE "Done"
                    /\ UNCHANGED schema
    /\ UNCHANGED <<usePostgres, rows, nextId, txFailed, name, raw_bytes,
                   fetched, rowsAtStart, committed, call>>
    /\ UNCHANGED <<detVars, clsVars>>

\* The name field and the upload / camera widget; the pipeline runs only
\* with an image and a non-empty name.
CollectInputs ==
    /\ pc = "Idle"
    /\ \E n \in Names, img \in Images \cup {""} :
        /\ name' = n
        /\ raw_bytes' = img
        /\ pc' = IF img # "" /\ n # "" THEN "ImageReceived" ELSE "History"
    /\ UNCHANGED <<dbVars, conn, txFailed, out, fetched, raised, rowsAtStart,
                   committed, reachable, steps, call>>
    /\ UNCHANGED <<detVars, clsVars>>

\* face = detect_first_face(image, device)
Detect ==
    /\ pc = "ImageReceived"
    /\ \E d \in VisitDetections :
        /\ frame' = d.frame
        /\ boxes' = d.boxes
        /\ probs' = d.probs
        /\ face' = DetectFirstFace(d.frame, d.boxes, d.probs)
    /\ IF face' = NoFace
       THEN /\ out' = out \cup {"No face detected in the image."}
            /\ pc' = "NoFaceDetected"
       ELSE /\ out' = out
            /\ pc' = "FaceFound"
    /\ steps' = steps \cup {"detect_first_face"}
    /\ UNCHANGED <<dbVars, conn, txFailed, name, raw_bytes, fetched, raised,
                   rowsAtStart, committed, reachable, call, clsVars>>

\* emotion, confidence = classify_emotion(recognizer, face); the recognizer
\* cannot resize an empty crop and its error leaves main().
Classify ==
    /\ pc = "FaceFound"
    /\ IF IsEmptyRegion(face)
       THEN /\ raised' = "inference error"
            /\ pc' = "Done"
            /\ UNCHANGED <<clsVars, out>>
       ELSE /\ \E sc \in VisitScores : \E p \in TopIdx(sc) :
                LET r == ClassifyEmotion(class_map, sc, p)
                IN  /\ scores' = sc
                    /\ pred' = p
                    /\ emotion' = r.label
                    /\ confidence' = r.confidence
            /\ out' = out \cup {"Predicted Emotion", "Save result"}
            /\ pc' = "ResultReady"
            /\ UNCHANGED <<class_map, raised>>
    /\ steps' = steps \cup {"classify_emotion"}
    /\ UNCHANGED <<dbVars, conn, txFailed, name, raw_bytes, fetched,
                   rowsAtStart, committed, reachable, call, detVars>>

\* st.button("Save result") is False in this run.
NoClick ==
    /\ pc = "ResultReady"
    /\ pc' = "History"
    /\ UNCHANGED <<dbVars, conn, txFailed, name, raw_bytes, out, fetched,
                   raised, rowsAtStart, committed, reachable, steps, call>>
    /\ UNCHANGED <<detVars, clsVars>>

\* save_result on the table: the row is added when the INSERT commits; a
\* failed PostgreSQL INSERT may already have drawn a value of the sequence
\* (the model lets one value be lost).
ApplySave(o, n, ts, img, emo, c) ==
    /\ o.inserted => Len(rows) < MaxRows
    /\ rows' = IF o.inserted
               THEN Append(rows, NewRow(rows, nextId, n, ts, img, emo, c, usePostgres))
               ELSE rows
    /\ \E drawn \in BOOLEAN :
        nextId' = IF o.inserted \/ (drawn /\ usePostgres /\ conn # Null
                                    /\ ~txFailed /\ nextId <= Len(rows) + 1)
                  THEN nextId + 1 ELSE nextId
    /\ txFailed' = o.txFailed
    /\ call' = [op |-> "save", ok |-> o.raised = NoError,
                inserted |-> o.inserted, name |-> n, timestamp |-> ts,
                image |-> img, emotion |-> emo, confidence |-> c, limit |-> 0]

\* The button is pressed: save_result(conn, name, raw_bytes, emotion,
\* confidence), then the toast.
ClickSave ==
    /\ pc = "ResultReady"
    /\ \E ok \in BOOLEAN, now \in Instants :
        LET o == SaveOutcome(usePostgres, conn, txFailed, ok)
        IN  /\ ApplySave(o, name, EffectiveTimestamp(NoTimestamp, now),
                         raw_bytes, emotion, confidence)
            /\ raised' = o.raised
            /\ committed' = IF o.inserted THEN committed + 1 ELSE committed
            /\ IF o.raised = NoError
               THEN /\ out' = out \cup o.msgs \cup {"Result saved to database."}
                    /\ pc' = "Saved"
               ELSE /\ out' = out \cup o.msgs
                    /\ pc' = "Done"
    /\ steps' = steps \cup {"save_result"}
    /\ UNCHANGED <<usePostgres, schema, conn, name, raw_bytes, fetched,
                   rowsAtStart, reachable>>
    /\ UNCHANGED <<detVars, clsVars>>

\* render_history(conn)
RenderHistory ==
    /\ pc \in {"History", "NoFaceDetected", "Saved"}
    /\ \E ok \in BOOLEAN :
        LET h == HistoryOutcome(conn, txFailed, ok, rows)
        IN  /\ out' = out \cup h.msgs
            /\ fetched' = h.fetched
    /\ pc' = "Done"
    /\ steps' = steps \cup {"render_history"}
    /\ UNCHANGED <<dbVars, conn, txFailed, name, raw_bytes, raised,
                   rowsAtStart, committed, reachable, call>>
    /\ UNCHANGED <<detVars, clsVars>>

\* The script runs again on the next interaction.
NewVisit ==
    /\ pc = "Done"
    /\ pc' = "Start"
    /\ conn' = Null
    /\ txFailed' = FALSE
    /\ name' = ""
    /\ raw_bytes' = ""
    /\ frame' = <<0, 0>>
    /\ boxes' = <<>>
    /\ probs' = <<>>
    /\ face' = NoFace
    /\ class_map' = ModelClassMap
    /\ scores' = [k \in ClassIdx |-> 0]
    /\ pred' = 0
    /\ emotion' = ""
    /\ confidence' = 0
    /\ out' = {}
    /\ fetched' = <<>>
    /\ raised' = NoError
    /\ committed' = 0
    /\ reachable' = TRUE
    /\ steps' = {}
    /\ call' = NoCall
    /\ rowsAtStart' = rows
    /\ UNCHANGED dbVars

Next ==
    \/ InitDatabase
    \/ CollectInputs
    \/ Detect
    \/ Classify
    \/ NoClick
    \/ ClickSave
    \/ RenderHistory
    \/ NewVisit

Spec == Init /\ [][Next]_vars

-----------------------------------------------------------------------------
(* The storage adapter called directly: initialize, save, fetch_recent *)

StoreNames == {"Alice"}
StoreLabels == {"Happy"}
SuppliedTimestamps == {"2025-12-31T23:59:59"}
StoreInstants == {"2026-01-01T00:00:00"}
\* 0.0, the smallest positive step of the model's floats, and 1.0.
StoreConfidences == {0, 1, ConfScale}

StoreInit ==
    /\ FreshDatabase
    /\ pc = "api"
    /\ NoSession
    /\ NoDetection
    /\ NoClassification

\* conn = init_database()
StInitialize ==
    /\ pc = "api"
    /\ \E up \in BOOLEAN :
        /\ reachable' = up
        /\ call' = [NoCall EXCEPT !.op = "initialize", !.ok = up]
        /\ IF up
           THEN /\ schema' = InitSchema(schema, usePostgres)
                /\ conn' = Open
                /\ out' = {}
                /\ raised' = NoError
           ELSE LET f == InitFailure(usePostgres)
                IN  /\ conn' = f.conn
                    /\ out' = f.msgs
                    /\ raised' = f.raised
                    /\ UNCHANGED schema
    /\ txFailed' = FALSE
    /\ fetched' = <<>>
    /\ UNCHANGED <<usePostgres, rows, nextId, pc, name, raw_bytes,
                   rowsAtStart, committed, steps>>
    /\ UNCHANGED <<detVars, clsVars>>

\* save_result(conn, name, image_bytes, emotion, confidence, timestamp)
StSave ==
    /\ pc = "api"
    /\ \E n \in StoreNames, img \in Images, emo \in StoreLabels,
          c \in StoreConfidences, ts \in SuppliedTimestamps \cup {NoTimestamp},
          now \in StoreInstants, ok \in BOOLEAN :
        LET o == SaveOutcome(usePostgres, conn, txFailed, ok)
        IN  /\ ApplySave(o, n, EffectiveTimestamp(ts, now), img, emo, c)
            /\ raised' = o.raised
            /\ out' = o.msgs
    /\ fetched' = <<>>
    /\ UNCHANGED <<usePostgres, schema, pc, conn, name, raw_bytes,
                   rowsAtStart, committed, reachable, steps>>
    /\ UNCHANGED <<detVars, clsVars>>

\* fetch_recent(conn, limit): the history query with LIMIT limit.
StFetch ==
    /\ pc = "api"
    /\ \E n \in 0..(MaxRows + 1), ok \in BOOLEAN :
        LET q == QueryOutcome(conn, txFailed, ok, rows, n)
        IN  /\ fetched' = q.fetched
            /\ out' = q.msgs
            /\ call' = IF call.op = "save"
                       THEN [call EXCEPT !.op = "save;fetch", !.ok = q.ok,
                                         !.limit = n]
                       ELSE [NoCall EXCEPT !.op = "fetch", !.ok = q.ok,
                                           !.limit = n]
    /\ raised' = NoError
    /\ UNCHANGED <<dbVars, pc, conn, txFailed, name, raw_bytes, rowsAtStart,
                   committed, reachable, steps>>
    /\ UNCHANGED <<detVars, clsVars>>

\* render_history(conn)
StRender ==
    /\ pc = "api"
    /\ \E ok \in BOOLEAN :
        LET q == HistoryOutcome(conn, txFailed, ok, rows)
        IN  /\ fetched' = q.fetched
            /\ out' = q.msgs
            /\ call' = [NoCall EXCEPT !.op = "render", !.ok = q.ok,
                                      !.limit = HistoryLimit]
    /\ raised' = NoError
    /\ UNCHANGED <<dbVars, pc, conn, txFailed, name, raw_bytes, rowsAtStart,
                   committed, reachable, steps>>
    /\ UNCHANGED <<detVars, clsVars>>

StoreNext ==
    \/ StInitialize
    \/ StSave
    \/ StFetch
    \/ StRender

SpecStore == StoreInit /\ [][StoreNext]_vars

-----------------------------------------------------------------------------
(* detect_first_face on the outputs a detector can produce *)

\* Coordinates in half pixels, from one pixel before the image to half a
\* pixel past the largest one.
Coords == (-2)..(2 * MaxDim + 1)

\* The boxes a detector reports for an image: once truncated to integers
\* they have no width or no height, or hold at least one pixel of the image.
DetectorBoxes(fr) ==
    {b \in Coords \X Coords \X Coords \X Coords :
        /\ b[1] <= b[3] /\ b[2] <= b[4]
        /\ \/ Trunc(b[3]) - Trunc(b[1]) <= 0
           \/ Trunc(b[4]) - Trunc(b[2]) <= 0
           \/ /\ Max(Trunc(b[1]), 0) < Min(Trunc(b[3]), fr[2])
              /\ Max(Trunc(b[2]), 0) < Min(Trunc(b[4]), fr[1])}

\* A second candidate reported next to the first.
RivalBoxes == {<<0, 0, 2, 2>>, <<1, 1, 1, 1>>, <<-2, 0, 2, 2>>}

DetectInit ==
    /\ FreshDatabase
    /\ pc = "detect"
    /\ NoSession
    /\ NoClassification
    /\ face = NoFace
    /\ frame \in (1..MaxDim) \X (1..MaxDim)
    /\ \/ boxes = <<>> /\ probs = <<>>
       \/ \E b \in DetectorBoxes(frame) :
            \/ boxes = <<b>> /\ probs \in {<<p>> : p \in 1..MaxProb}
            \/ \E r \in RivalBoxes :
                /\ boxes \in {<<b, r>>, <<r, b>>}
                /\ probs \in (1..MaxProb) \X (1..MaxProb)

DetectCall ==
    /\ pc = "detect"
    /\ face' = DetectFirstFace(frame, boxes, probs)
    /\ pc' = "detected"
    /\ UNCHANGED <<dbVars, conn, txFailed, name, raw_bytes, out, fetched,
                   raised, rowsAtStart, committed, reachable, steps, call>>
    /\ UNCHANGED <<frame, boxes, probs, clsVars>>

SpecDetect == DetectInit /\ [][DetectCall]_vars

-----------------------------------------------------------------------------
(* classify_emotion on the outputs a recognizer can produce *)

ModelLabels == {LabelSeq[k + 1] : k \in ClassIdx}

ClassifyInit ==
    /\ FreshDatabase
    /\ pc = "classify"
    /\ NoSession
    /\ NoDetection
    /\ class_map \in [ClassIdx -> ModelLabels]
    /\ scores \in [ClassIdx -> Confidences]
    /\ pred \in TopIdx(scores)
    /\ emotion = ""
    /\ confidence = 0

ClassifyCall ==
    /\ pc = "classify"
    /\ LET r == ClassifyEmotion(class_map, scores, pred)
       IN  /\ emotion' = r.label
           /\ confidence' = r.confidence
    /\ pc' = "classified"
    /\ UNCHANGED <<dbVars, conn, txFailed, name, raw_bytes, out, fetched,
                   raised, rowsAtStart, committed, reachable, steps, call>>
    /\ UNCHANGED <<detVars, class_map, scores, pred>>

SpecClassify == ClassifyInit /\ [][ClassifyCall]_vars

-----------------------------------------------------------------------------
(* Properties of the visits *)

Warning == "No face detected in the image."
Toast == "Result saved to database."

\* The detector's output makes detect_first_face answer None: no candidate,
\* or a most probable box of no width or no height after truncation.
AbsentCase ==
    \/ boxes = <<>>
    \/ \E i \in 1..Len(boxes) :
        /\ \A j \in 1..Len(probs) : probs[j] <= probs[i]
        /\ \A j \in 1..(i - 1) : probs[j] < probs[i]
        /\ \/ Trunc(boxes[i][3]) - Trunc(boxes[i][1]) <= 0
           \/ Trunc(boxes[i][4]) - Trunc(boxes[i][2]) <= 0

\* C1: save_result never raises to main(): whatever the backend and the
\* connection (None included), a failed save is reported as a message and
\* the visit goes on to render the history.
C1_SaveNeverRaises ==
    /\ "save_result" \in steps => raised = NoError
    /\ "save_result" \in steps /\ committed = 0 => "Database error" \in out
    /\ pc = "Done" /\ "save_result" \in steps => "render_history" \in steps

\* C2: with the networked backend configured and unreachable, init_database
\* returns None and reports the connectivity error without ending the visit,
\* and render_history on that None shows an error message and does not raise.
C2_UnreachableBackendDegrades ==
    (usePostgres /\ "init_database" \in steps /\ ~reachable) =>
        /\ conn = Null
        /\ "PostgreSQL connection error" \in out
        /\ steps = {"init_database"} => raised = NoError /\ pc # "Done"
        /\ "render_history" \in steps =>
              /\ "Database connection failed" \in out
              /\ raised = NoError
              /\ fetched = <<>>

C2_Witness ==
    /\ usePostgres
    /\ ~reachable
    /\ "render_history" \in steps
    /\ pc = "Done"

\* C3: in a visit whose detection is absent (no candidates, or a degenerate
\* selected box) the warning is shown, the classifier is not called, no save
\* is offered and the usage table stays as it was when the visit began.
C3_NoFaceNoSave ==
    ("detect_first_face" \in steps /\ (AbsentCase \/ face = NoFace)) =>
        /\ face = NoFace
        /\ Warning \in out
        /\ "classify_emotion" \notin steps
        /\ "Save result" \notin out
        /\ "save_result" \notin steps
        /\ rows = rowsAtStart

C3_Witness ==
    /\ pc = "Done"
    /\ "render_history" \in steps
    /\ "detect_first_face" \in steps
    /\ boxes # <<>>
    /\ face = NoFace
    /\ rows # <<>>

\* The step is the save confirmation of a visit with a name, an image and a
\* classified face.
SaveConfirmed ==
    /\ pc = "ResultReady"
    /\ "save_result" \in steps' /\ "save_result" \notin steps
    /\ name # "" /\ raw_bytes # ""
    /\ face # NoFace
    /\ "classify_emotion" \in steps

Appended ==
    /\ Len(rows') = Len(rows) + 1
    /\ SubSeq(rows', 1, Len(rows)) = rows
    /\ \A i \in 1..Len(rows) : rows[i].id < rows'[Len(rows')].id

\* C4 as claimed: rows are added only by a save confirmation after
\* ResultReady, every such confirmation adds exactly one row with a larger
\* id than all others, and no step changes or deletes a row.
C4_EveryConfirmationAddsARow ==
    [][ /\ rows' # rows => SaveConfirmed
        /\ SaveConfirmed => Appended
        /\ ~SaveConfirmed => rows' = rows ]_vars

\* C4 as amended: rows are added only by a save confirmation after
\* ResultReady; a confirmation adds exactly one row with a larger id than all
\* others when its save succeeds and none when its save fails; no step
\* changes or deletes a row.
C4_OnlyConfirmedSavesAddRows ==
    [][ /\ rows' # rows => SaveConfirmed
        /\ SaveConfirmed =>
              IF raised' = NoError /\ "Database error" \notin out'
              THEN Appended /\ committed' = committed + 1
              ELSE rows' = rows /\ committed' = committed
        /\ ~SaveConfirmed => rows' = rows ]_vars

C4_Witness ==
    /\ "save_result" \in steps
    /\ committed = 1
    /\ Len(rows) = 2
    /\ rows[2].id > rows[1].id + 1

\* C10: the visit shows "Result saved to database." only when its save
\* inserted and committed a row, and never together with a reported
\* database error.
C10_ToastOnlyAfterCommit ==
    /\ Toast \in out => committed >= 1
    /\ "Database error" \in out => Toast \notin out

-----------------------------------------------------------------------------
(* Properties of the storage adapter *)

FullSchema == [tables |-> 1, idxTimestamp |-> 1, idxName |-> 1]

\* C5: a successful save followed by fetch_recent(limit = 1) returns exactly
\* one entry, carrying the name, timestamp, emotion and confidence of the
\* record just saved (the timestamp supplied, or the one assigned by save).
C5_SaveThenFetchRoundTrip ==
    (call.op = "save;fetch" /\ call.inserted /\ call.ok /\ call.limit = 1) =>
        fetched = <<[name |-> call.name, timestamp |-> call.timestamp,
                     emotion |-> call.emotion,
                     confidence |-> call.confidence]>>

\* C6: fetch_recent(limit = N) returns min(N, row count) entries, the most
\* recently inserted rows in strictly descending id order, and an empty
\* sequence with no error on an empty table; the panel fetches with N = 100.
C6_FetchRecentNewestFirst ==
    /\ \A i, j \in 1..Len(rows) : i < j => rows[i].id < rows[j].id
    /\ (call.op \in {"fetch", "save;fetch", "render"} /\ call.ok) =>
          /\ Len(fetched) = Min(call.limit, Len(rows))
          /\ \A i \in 1..Len(fetched) :
                fetched[i] = Display(rows[Len(rows) + 1 - i])
          /\ raised = NoError
          /\ "Error fetching history" \notin out
          /\ rows = <<>> => fetched = <<>> /\ "No records found." \in out
    /\ call.op = "render" => call.limit = 100

C6_Witness ==
    /\ call.op = "fetch"
    /\ call.ok
    /\ call.limit = 1
    /\ Len(rows) = 2
    /\ Len(fetched) = 1
    /\ fetched[1] # Display(rows[1])

\* C7: a successful initialize(), first or repeated, on either backend,
\* leaves exactly one usage table, one index on timestamp and one index on
\* name, does not raise and leaves the stored rows as they were.
C7_InitializeBuildsFullSchemaOnce ==
    [][ (call'.op = "initialize" /\ call'.ok) =>
            /\ schema' = FullSchema
            /\ raised' = NoError
            /\ rows' = rows ]_vars

-----------------------------------------------------------------------------
(* Properties of the inference pipeline *)

\* The most probable candidate's box, truncated to integers.
BestBox ==
    LET i == CHOOSE k \in 1..Len(probs) :
                /\ \A j \in 1..Len(probs) : probs[j] <= probs[k]
                /\ \A j \in 1..(k - 1) : probs[j] < probs[k]
    IN  [x1 |-> Trunc(boxes[i][1]), y1 |-> Trunc(boxes[i][2]),
         x2 |-> Trunc(boxes[i][3]), y2 |-> Trunc(boxes[i][4])]

\* C8: detect_first_face returns absent exactly when there is no candidate
\* or the most probable box has no width or no height; otherwise it returns
\* the part of the image inside that box, a region of positive width and
\* height.
C8_AbsentOrCropOfBestBox ==
    pc = "detected" =>
        IF AbsentCase
        THEN face = NoFace
        ELSE /\ face.kind = "region"
             /\ Height(face) > 0
             /\ Width(face) > 0
             /\ face.y1 = Max(BestBox.y1, 0)
             /\ face.y2 = Min(BestBox.y2, frame[1])
             /\ face.x1 = Max(BestBox.x1, 0)
             /\ face.x2 = Min(BestBox.x2, frame[2])

Injective(cm) == \A j, k \in ClassIdx : cm[j] = cm[k] => j = k

\* C9: classify_emotion returns the top-ranked label, a label of the model's
\* label set, with the score stored at the class index the inverse lookup
\* gives for that label; the confidence lies in [0, 1] and equals the top
\* score whenever the label map is a bijection.
C9_LabelAndScoreOfLookedUpClass ==
    pc = "classified" =>
        /\ emotion = class_map[pred]
        /\ emotion \in ModelLabels
        /\ \E k \in ClassIdx :
              /\ class_map[k] = emotion
              /\ \A j \in ClassIdx : class_map[j] = emotion => j <= k
              /\ confidence = scores[k]
        /\ confidence \in 0..ConfScale
        /\ Injective(class_map) =>
              \A k \in ClassIdx : scores[k] <= confidence

C9_Witness ==
    /\ pc = "classified"
    /\ Injective(class_map)
    /\ pred # 0
    /\ confidence > scores[0]

====
